---- MODULE Spec2Model ----
(***************************************************************************)
(* Model of the notebooks of cchalc/databricks-field that carry behaviour  *)
(* of their own:                                                           *)
(*   - 04_Data_ETL.py: pii_bot, batch_process_prompts and the job that     *)
(*     evaluates its result (SpecBatch); the quarantine / cleanse /        *)
(*     redact / publish pipeline (SpecEtl);                                *)
(*   - the functions that call external services and decide what a failed  *)
(*     call becomes: pii_bot, retriable_execution, send_request,           *)
(*     redact_pii_udf, HotelRetrievalTool._run (SpecCalls).                *)
(* Strings are sequences of one-character strings, so that INSTR and       *)
(* str.replace are computed, not assumed.                                  *)
(***************************************************************************)
EXTENDS Integers, Sequences, FiniteSets, TLC

VARIABLES
    \* ---- batch_process_prompts and the Spark job on its result
    partRows,   \* rows held by each partition of df_with_prompts
    pc,         \* position of the notebook driver
    i,          \* loop variable of batch_process_prompts
    results,    \* the list `results`: batch ids of the (lazy) DataFrames appended
    nSleeps,    \* number of time.sleep(WAIT_MINS*60) calls made
    tasks,      \* Spark tasks of the job: <<batch_id, partition>> -> record
    \* ---- one call of a function that talks to an external service
    call,
    \* ---- the tables and views of the ETL of 04_Data_ETL.py
    etl,            \* the notebook cell the ETL has reached
    source,         \* SOURCE_TABLE: rows (message_id, unmasked_text)
    handled,        \* bronze_documents_pii_handled
    quarantined,    \* bronze_documents_pii_handled_quarantined
    cleansed,       \* bronze_documents_pii_handled_cleansed
    deptFilters,    \* view_bronze_dept_filters: department -> merged_list
    gatewayPrompts, \* the prompts llama_70b has sent through the AI Gateway
    redacted,       \* bronze_pii_redacted
    silver,         \* silver_pii_profiled_dept_*: department -> rows
    gold,           \* gold_pii_profiled_dept_*: department -> rows
    \* ---- the MLflow model registry and set_model_version_production
    registry,       \* stage of each version 1 .. n of the registered model
    promo           \* set_model_version_production: its position and locals

batchVars == <<partRows, pc, i, results, nSleeps, tasks>>
callVars == <<call>>
etlVars == <<etl, source, handled, quarantined, cleansed, deptFilters,
             gatewayPrompts, redacted, silver, gold>>
regVars == <<registry, promo>>
vars == <<batchVars, callVars, etlVars, regVars>>

-----------------------------------------------------------------------------
(* Bounds of the model *)

MaxPartitions == 2
MaxRowsPerPartition == 1
Slots == 2
MaxSeries == 2
ManyRows == 1601
MaxTextLen == 2
MaxPii == 2
MaxVersions == 3

(* Program constants *)

N_PROMPTS_PER_BATCH == 40
PARTITION_ID_SHIFT == 33
DEFAULT_MAX_RETRIES == 3
HTTP_OK == 200
HTTP_NOT_FOUND == 404
HTTP_SERVER_ERROR == 500
HTTP_GATEWAY_TIMEOUT == 504

StatusCodes == {HTTP_OK, HTTP_NOT_FOUND, HTTP_SERVER_ERROR, HTTP_GATEWAY_TIMEOUT}

-----------------------------------------------------------------------------
(* pii_bot: the decision taken on the endpoint's response *)

PiiBotRaisesOn504Only(status) == status = HTTP_GATEWAY_TIMEOUT

\* `if response.status_code != 200: raise Exception(...)`
PiiBotRaises(status) == status # HTTP_OK

\* number of model outputs returned for nPrompts prompts: one text per
\* prediction, and nothing at all when the function raises
PiiBotOutputs(status, nPrompts) == IF PiiBotRaises(status) THEN 0 ELSE nPrompts

-----------------------------------------------------------------------------
(* batch_process_prompts *)

\* 2^k modulo m, without leaving 32-bit integers
RECURSIVE Pow2Mod(_, _)
Pow2Mod(k, m) == IF k = 0 THEN 1 % m ELSE (2 * Pow2Mod(k - 1, m)) % m

\* (1 << 33) modulo N_PROMPTS_PER_BATCH: what one more partition adds
PartitionStride == Pow2Mod(PARTITION_ID_SHIFT, N_PROMPTS_PER_BATCH)

\* monotonically_increasing_id() is (partition index << 33) + record number
\* within the partition; `(col("mono_id") % N_PROMPTS_PER_BATCH).cast("long")`
\* is computed here modulo N_PROMPTS_PER_BATCH throughout.
BatchId(p, r) == (p * PartitionStride + r) % N_PROMPTS_PER_BATCH

\* rows of partition p that `filter(col("batch_id") == b)` keeps
BatchRows(b, p) ==
    Cardinality({r \in 0 .. (partRows[p + 1] - 1) : BatchId(p, r) = b})

Partitions == 0 .. (Len(partRows) - 1)

\* The union of the DataFrames in `results`: one task per (batch, partition);
\* the pandas UDF is invoked in the tasks that hold at least one row.
UnionTasks ==
    {t \in {results[k] : k \in 1 .. Len(results)} \X Partitions :
        BatchRows(t[1], t[2]) > 0}

Running == {t \in DOMAIN tasks : tasks[t].state \in {"sleeping", "posted"}}
Raised == {t \in DOMAIN tasks : tasks[t].state = "raised"}

BatchInit ==
    /\ partRows \in UNION {[1 .. n -> 0 .. MaxRowsPerPartition] : n \in 1 .. MaxPartitions}
    /\ pc = "loop"
    /\ i = 0
    /\ results = <<>>
    /\ nSleeps = 0
    /\ tasks = [t \in {} |-> 0]

LoopIterationAlwaysSleeps ==
    /\ pc = "loop"
    /\ i < N_PROMPTS_PER_BATCH
    /\ results' = Append(results, i)
    /\ pc' = "sleep"
    /\ UNCHANGED <<partRows, i, nSleeps, tasks, call, etlVars, regVars>>

\* One iteration of `for i in range(N_PROMPTS_PER_BATCH)`: filter, withColumn
\* (both lazy: no request is sent), append.
LoopIteration ==
    /\ pc = "loop"
    /\ i < N_PROMPTS_PER_BATCH
    /\ results' = Append(results, i)
    /\ pc' = IF i < N_PROMPTS_PER_BATCH - 1 THEN "sleep" ELSE "union"
    /\ UNCHANGED <<partRows, i, nSleeps, tasks, call, etlVars, regVars>>

\* `time.sleep(WAIT_MINS*60)` and the loop's next value of i
LoopSleep ==
    /\ pc = "sleep"
    /\ nSleeps' = nSleeps + 1
    /\ i' = i + 1
    /\ pc' = "loop"
    /\ UNCHANGED <<partRows, results, tasks, call, etlVars, regVars>>

\* the union of the results and `return df_results`
UnionReturn ==
    /\ pc = "union"
    /\ pc' = "returned"
    /\ UNCHANGED <<partRows, i, results, nSleeps, tasks, call, etlVars, regVars>>

\* `df_categorised.cache(); display(df_categorised)`: the first action on the
\* DataFrame; Spark submits the job that evaluates the union.
DisplayAction ==
    /\ pc = "returned"
    /\ tasks' = [t \in UnionTasks |->
                    [state |-> "pending", status |-> 0, outputs |-> 0,
                     prompts |-> BatchRows(t[1], t[2])]]
    /\ pc' = "job"
    /\ UNCHANGED <<partRows, i, results, nSleeps, call, etlVars, regVars>>

\* A task gets a free slot and calls pii_bot, which first sleeps WAIT_SECONDS.
TaskStart(t) ==
    /\ pc = "job"
    /\ Raised = {}
    /\ tasks[t].state = "pending"
    /\ Cardinality(Running) < Slots
    /\ tasks' = [tasks EXCEPT ![t].state = "sleeping"]
    /\ UNCHANGED <<partRows, pc, i, results, nSleeps, call, etlVars, regVars>>

\* requests.post(...) of the task's pii_bot call: the request is in flight
TaskPost(t) ==
    /\ pc = "job"
    /\ Raised = {}
    /\ tasks[t].state = "sleeping"
    /\ tasks' = [tasks EXCEPT ![t].state = "posted"]
    /\ UNCHANGED <<partRows, pc, i, results, nSleeps, call, etlVars, regVars>>

\* the endpoint answers; pii_bot raises or returns the outputs
TaskRespond(t, status) ==
    /\ pc = "job"
    /\ Raised = {}
    /\ tasks[t].state = "posted"
    /\ tasks' = [tasks EXCEPT
                    ![t].state = IF PiiBotRaises(status) THEN "raised" ELSE "returned",
                    ![t].status = status,
                    ![t].outputs = PiiBotOutputs(status, tasks[t].prompts)]
    /\ UNCHANGED <<partRows, pc, i, results, nSleeps, call, etlVars, regVars>>

\* every task returned: the cell completes
JobDone ==
    /\ pc = "job"
    /\ \A t \in DOMAIN tasks : tasks[t].state = "returned"
    /\ pc' = "done"
    /\ UNCHANGED <<partRows, i, results, nSleeps, tasks, call, etlVars, regVars>>

\* the exception of a task surfaces in the notebook
JobFailed ==
    /\ pc = "job"
    /\ Raised # {}
    /\ pc' = "failed"
    /\ UNCHANGED <<partRows, i, results, nSleeps, tasks, call, etlVars, regVars>>

BatchNext ==
    \/ LoopIteration
    \/ LoopSleep
    \/ UnionReturn
    \/ DisplayAction
    \/ \E t \in DOMAIN tasks : TaskStart(t)
    \/ \E t \in DOMAIN tasks : TaskPost(t)
    \/ \E t \in DOMAIN tasks : \E status \in StatusCodes : TaskRespond(t, status)
    \/ JobDone
    \/ JobFailed

-----------------------------------------------------------------------------
(* One call of a function that talks to an external service.               *)
(*   issued   external calls issued so far by this invocation              *)
(*   failed   how many of them failed (non-200 status, or threw)           *)
(*   reissued a call that had failed in this invocation was issued again    *)
(*   outcome  "none" while running, then "returned" or "raised"            *)
(*   value    what was returned                                            *)

NewCall(fn, at, arg) ==
    [fn |-> fn, pc |-> at, arg |-> arg, status |-> 0, issued |-> 0, failed |-> 0,
     reissued |-> FALSE, outcome |-> "none", value |-> "", num_try |-> 0,
     stmt |-> "", failedStmts |-> {}, responses |-> <<>>]

CallIdle == NewCall("idle", "idle", 0)

\* the call issues one more external call
Issue(c) == [c EXCEPT !.issued = @ + 1]

\* the call executes its SQL statement: again, if that statement failed before
Execute(c) == [Issue(c) EXCEPT !.reissued = @ \/ (c.stmt \in c.failedStmts)]

Returns(c, v) == [c EXCEPT !.pc = "end", !.outcome = "returned", !.value = v]
Raises(c) == [c EXCEPT !.pc = "end", !.outcome = "raised"]

Statements == {"sql_a", "sql_b"}

\* ---- pii_bot(prompts), called on its own

CallPiiBot(n) ==
    /\ call.fn = "idle"
    /\ call' = NewCall("pii_bot", "sleep", n)
    /\ UNCHANGED <<batchVars, etlVars, regVars>>

\* time.sleep(WAIT_SECONDS), then requests.post(...)
PiiBotPost ==
    /\ call.fn = "pii_bot" /\ call.pc = "sleep"
    /\ call' = [Issue(call) EXCEPT !.pc = "posted"]
    /\ UNCHANGED <<batchVars, etlVars, regVars>>

PiiBotRespond(status) ==
    /\ call.fn = "pii_bot" /\ call.pc = "posted"
    /\ LET c == [call EXCEPT !.status = status,
                             !.failed = IF status # HTTP_OK THEN @ + 1 ELSE @]
       IN call' = IF PiiBotRaises(status)
                  THEN Raises(c)
                  ELSE [Returns(c, "outputs") EXCEPT
                           !.responses = [k \in 1 .. PiiBotOutputs(status, c.arg) |-> "text"]]
    /\ UNCHANGED <<batchVars, etlVars, regVars>>

\* ---- retriable_execution(question, max_retries)

RetriableGivesUpLate(num_try, max_retries) == num_try > max_retries

\* `while num_try <= max_retries:`
RetriableLoops(num_try, max_retries) == num_try <= max_retries

\* `if num_try == max_retries: raise error`
RetriableGivesUp(num_try, max_retries) == num_try = max_retries

\* get_ddl_statements, sql_generator, num_try = 0
CallRetriable(max_retries, stmt) ==
    /\ call.fn = "idle"
    /\ call' = [NewCall("retriable_execution", "while", max_retries) EXCEPT !.stmt = stmt]
    /\ UNCHANGED <<batchVars, etlVars, regVars>>

\* one pass of the while loop whose execute_sql_statement succeeds: break
RetriableTryOk ==
    /\ call.fn = "retriable_execution" /\ call.pc = "while"
    /\ RetriableLoops(call.num_try, call.arg)
    /\ call' = [Execute(call) EXCEPT !.pc = "summarize", !.value = "results_string"]
    /\ UNCHANGED <<batchVars, etlVars, regVars>>

\* one pass whose execute_sql_statement throws: the statement is rectified,
\* num_try counts up, and the error is raised once num_try == max_retries
RetriableTryFails(rectified) ==
    /\ call.fn = "retriable_execution" /\ call.pc = "while"
    /\ RetriableLoops(call.num_try, call.arg)
    /\ LET c == [Execute(call) EXCEPT !.failed = @ + 1, !.stmt = rectified,
                                      !.failedStmts = @ \cup {call.stmt},
                                      !.num_try = @ + 1]
       IN call' = IF RetriableGivesUp(c.num_try, c.arg) THEN Raises(c) ELSE c
    /\ UNCHANGED <<batchVars, etlVars, regVars>>

\* the loop condition is false: the loop ends without a break
RetriableLoopEnds ==
    /\ call.fn = "retriable_execution" /\ call.pc = "while"
    /\ ~RetriableLoops(call.num_try, call.arg)
    /\ call' = [call EXCEPT !.pc = "summarize"]
    /\ UNCHANGED <<batchVars, etlVars, regVars>>

\* sql_result_summarizer(..., relevant_rows=results_string): results_string is
\* unbound when no execution succeeded, and the reference raises; otherwise
\* the language model answers, or its client throws (nothing catches it).
\* `issued` counts the execute_sql_statement calls only.
RetriableSummarize(ok) ==
    /\ call.fn = "retriable_execution" /\ call.pc = "summarize"
    /\ call' = IF call.value # "results_string" THEN Raises(call)
               ELSE IF ok THEN Returns(call, "answer")
               ELSE Raises([call EXCEPT !.failed = @ + 1])
    /\ UNCHANGED <<batchVars, etlVars, regVars>>

\* ---- ModelServingHelper.send_request(method, endpoint, data)

SendRequestRaisesOn404(status) == status # HTTP_OK

\* `if status_code == 404: return response.json()`
\* `elif status_code != 200: raise Exception(...)`
SendRequestRaises(status) == status # HTTP_NOT_FOUND /\ status # HTTP_OK

\* requests.request(...), with or without a body (`data is not None`)
CallSendRequest(data) ==
    /\ call.fn = "idle"
    /\ call' = [Issue(NewCall("send_request", "posted", 0)) EXCEPT !.stmt = data]
    /\ UNCHANGED <<batchVars, etlVars, regVars>>

SendRequestRespond(status) ==
    /\ call.fn = "send_request" /\ call.pc = "posted"
    /\ LET c == [call EXCEPT !.status = status,
                             !.failed = IF status # HTTP_OK THEN @ + 1 ELSE @]
       IN call' = IF SendRequestRaises(status) THEN Raises(c) ELSE Returns(c, "json")
    /\ UNCHANGED <<batchVars, etlVars, regVars>>

\* ---- redact_pii_udf(text_series)

CallRedactPiiUdf(n) ==
    /\ call.fn = "idle"
    /\ call' = NewCall("redact_pii_udf", "for", n)
    /\ UNCHANGED <<batchVars, etlVars, regVars>>

\* one text of the series: ChatCompletion.create answers, or throws and the
\* except clause appends "Error: " + str(e)
RedactPiiUdfText(ok) ==
    /\ call.fn = "redact_pii_udf" /\ call.pc = "for"
    /\ Len(call.responses) < call.arg
    /\ call' = [Issue(call) EXCEPT
                   !.failed = IF ok THEN @ ELSE @ + 1,
                   !.responses = Append(@, IF ok THEN "message" ELSE "Error")]
    /\ UNCHANGED <<batchVars, etlVars, regVars>>

RedactPiiUdfReturn ==
    /\ call.fn = "redact_pii_udf" /\ call.pc = "for"
    /\ Len(call.responses) = call.arg
    /\ call' = Returns(call, "series")
    /\ UNCHANGED <<batchVars, etlVars, regVars>>

\* ---- HotelRetrievalTool._run(hotel_preference)

CallRun ==
    /\ call.fn = "idle"
    /\ call' = NewCall("_run", "get_index", 0)
    /\ UNCHANGED <<batchVars, etlVars, regVars>>

\* VectorSearchClient().get_index(...): inside the try
RunGetIndex(ok) ==
    /\ call.fn = "_run" /\ call.pc = "get_index"
    /\ LET c == Issue(call)
       IN call' = IF ok THEN [c EXCEPT !.pc = "embedding"]
                  ELSE Returns([c EXCEPT !.failed = @ + 1], "[]")
    /\ UNCHANGED <<batchVars, etlVars, regVars>>

\* calculate_embedding raises on a status other than 200; the except clause of
\* _run catches it and returns []
RunEmbedding(status) ==
    /\ call.fn = "_run" /\ call.pc = "embedding"
    /\ LET c == [Issue(call) EXCEPT !.status = status]
       IN call' = IF status # HTTP_OK
                  THEN Returns([c EXCEPT !.failed = @ + 1], "[]")
                  ELSE [c EXCEPT !.pc = "search"]
    /\ UNCHANGED <<batchVars, etlVars, regVars>>

SearchResults == {"rows", "no_data_array", "throws"}

\* index.similarity_search(...) throws (caught: return []), or answers; an
\* answer without a data_array leaves data_array None, and the list
\* comprehension after the try raises
RunSearch(result) ==
    /\ call.fn = "_run" /\ call.pc = "search"
    /\ LET c == Issue(call)
       IN call' = CASE result = "rows" -> Returns(c, "hotel_ids")
                    [] result = "no_data_array" -> Raises(c)
                    [] OTHER -> Returns([c EXCEPT !.failed = @ + 1], "[]")
    /\ UNCHANGED <<batchVars, etlVars, regVars>>

CallsNext ==
    \/ \E n \in 1 .. MaxSeries : CallPiiBot(n)
    \/ PiiBotPost
    \/ \E status \in StatusCodes : PiiBotRespond(status)
    \/ \E m \in 0 .. DEFAULT_MAX_RETRIES : \E stmt \in Statements : CallRetriable(m, stmt)
    \/ RetriableTryOk
    \/ \E stmt \in Statements : RetriableTryFails(stmt)
    \/ RetriableLoopEnds
    \/ \E ok \in BOOLEAN : RetriableSummarize(ok)
    \/ \E data \in {"body", "None"} : CallSendRequest(data)
    \/ \E status \in StatusCodes : SendRequestRespond(status)
    \/ \E n \in 1 .. MaxSeries : CallRedactPiiUdf(n)
    \/ \E ok \in BOOLEAN : RedactPiiUdfText(ok)
    \/ RedactPiiUdfReturn
    \/ CallRun
    \/ \E ok \in BOOLEAN : RunGetIndex(ok)
    \/ \E status \in StatusCodes : RunEmbedding(status)
    \/ \E result \in SearchResults : RunSearch(result)

-----------------------------------------------------------------------------
(* Strings: sequences of characters *)

Chars == {"a", "P"}

Strings(lo, hi) == UNION {[1 .. n -> Chars] : n \in lo .. hi}

EmptyStr == <<>>
Ellipsis == <<".", ".", ".">>

\* SQL NULL / Python None in a STRING column
NullStr == <<"NULL">>

CharsOf(str) == {str[k] : k \in 1 .. Len(str)}

\* value occurs in text at position k (1-based)
IsAt(text, value, k) ==
    /\ k + Len(value) - 1 <= Len(text)
    /\ \A j \in 1 .. Len(value) : text[k + j - 1] = value[j]

\* INSTR(text, value): the 1-based position of the first occurrence, 0 when
\* there is none (the empty string is found at position 1)
Instr(text, value) ==
    LET hits == {k \in 1 .. (Len(text) + 1) : IsAt(text, value, k)}
    IN IF hits = {} THEN 0 ELSE CHOOSE k \in hits : \A m \in hits : k <= m

RECURSIVE ReplaceFrom(_, _, _, _)
ReplaceFrom(text, old, new, k) ==
    IF k > Len(text) THEN <<>>
    ELSE IF IsAt(text, old, k) THEN new \o ReplaceFrom(text, old, new, k + Len(old))
    ELSE <<text[k]>> \o ReplaceFrom(text, old, new, k + 1)

RECURSIVE Interleave(_, _, _)
Interleave(text, new, k) ==
    IF k > Len(text) THEN new ELSE new \o <<text[k]>> \o Interleave(text, new, k + 1)

ReplaceFirstOnly(text, old, new) ==
    LET k == Instr(text, old)
    IN IF k = 0 THEN text
       ELSE SubSeq(text, 1, k - 1) \o new \o SubSeq(text, k + Len(old), Len(text))

\* Python str.replace(old, new): every non-overlapping occurrence, leftmost
\* first; an empty `old` matches before every character and at the end
Replace(text, old, new) ==
    IF old = <<>> THEN Interleave(text, new, 1) ELSE ReplaceFrom(text, old, new, 1)

\* f"[{item_pii['pii_type']}]"
Tag(pii_type) == <<"[">> \o pii_type \o <<"]">>

-----------------------------------------------------------------------------
(* SQL three-valued logic: a WHERE clause keeps the rows whose predicate is
   TRUE, and drops those for which it is FALSE or NULL *)

SqlBool(b) == IF b THEN "TRUE" ELSE "FALSE"

SqlOr(x, y) ==
    IF x = "TRUE" \/ y = "TRUE" THEN "TRUE"
    ELSE IF x = "NULL" \/ y = "NULL" THEN "NULL" ELSE "FALSE"

SqlAnd(x, y) ==
    IF x = "FALSE" \/ y = "FALSE" THEN "FALSE"
    ELSE IF x = "NULL" \/ y = "NULL" THEN "NULL" ELSE "TRUE"

SqlNot(x) == IF x = "NULL" THEN "NULL" ELSE SqlBool(x = "FALSE")

\* INSTR(text, value) <= 0 and INSTR(text, value) > 0: NULL for a NULL value
SqlInstrLe0(text, value) ==
    IF value = NullStr THEN "NULL" ELSE SqlBool(Instr(text, value) <= 0)

SqlInstrGt0(text, value) ==
    IF value = NullStr THEN "NULL" ELSE SqlBool(Instr(text, value) > 0)

\* value IN ("", "...")
SqlIsPlaceholder(value) ==
    IF value = NullStr THEN "NULL" ELSE SqlBool(value \in {EmptyStr, Ellipsis})

-----------------------------------------------------------------------------
(* The data of the ETL *)

MessageIds == {"m1"}

Texts == Strings(1, MaxTextLen)

\* pii_type names the model answers with
IP == <<"I", "P">>
NAME == <<"N", "A", "M", "E">>
PiiTypes == {IP, NAME}

\* values the model answers with: a character of the text or one that is not
\* in it, the empty string, the placeholder of the prompt's example, or none
\* (a missing or null "value")
LlmValues == {NullStr, EmptyStr, Ellipsis} \cup {<<c>> : c \in Chars}

PiiEntries == [pii_type : PiiTypes, value : LlmValues]

\* a NULL pii_detected (FROM_JSON could not parse the response)
NullPii == <<[pii_type |-> NullStr, value |-> NullStr]>>

PiiLists == UNION {[1 .. n -> PiiEntries] : n \in 0 .. MaxPii}

\* `DEPARTMENT_REDACTION_EXEMPTIONS`
DEPARTMENT_REDACTION_EXEMPTIONS ==
    [CUSTOMER_SUPPORT |-> <<"Person names", "Email addresses", "Postal addresses">>,
     CYBERSECURITY |-> <<"IP addresses", "MAC addresses", "Network addresses">>,
     PEOPLE_OPS |-> <<"Person names", "Email addresses">>,
     TECHNICAL_SUPPORT |-> <<"Person names", "Email addresses">>]

\* departments the model answers with: those with exemptions, and one without
Departments == DOMAIN DEPARTMENT_REDACTION_EXEMPTIONS \cup {"LEGAL"}

\* a NULL departments (FROM_JSON could not parse the response)
NullDepts == <<"NULL">>

\* the answers of the categorisation: no department, or one
DepartmentLists == {<<>>} \cup {<<d>> : d \in Departments}

\* `DEPARTMENT_REDACTION_EXEMPTIONS.get(department, [])`
DepartmentExclusions(department) ==
    IF department \in DOMAIN DEPARTMENT_REDACTION_EXEMPTIONS
    THEN DEPARTMENT_REDACTION_EXEMPTIONS[department]
    ELSE <<>>

Range(seq) == {seq[k] : k \in 1 .. Len(seq)}

\* the rearrangements of a list
Orders(list) ==
    {[k \in 1 .. Len(list) |-> list[p[k]]] : p \in Permutations(1 .. Len(list))}

-----------------------------------------------------------------------------
(* The queries of the ETL *)

\* MERGE INTO bronze_documents_pii_handled ... WHEN MATCHED THEN UPDATE SET
\* target.departments ... WHEN NOT MATCHED THEN INSERT (message_id,
\* unmasked_text, departments): pii_detected of an inserted row is NULL
MergeDepartments(table, src) ==
    {[r EXCEPT !.departments = src[r.message_id].departments] :
        r \in {t \in table : t.message_id \in DOMAIN src}}
    \cup {t \in table : t.message_id \notin DOMAIN src}
    \cup {[message_id |-> m, unmasked_text |-> src[m].unmasked_text,
           departments |-> src[m].departments, pii_detected |-> NullPii] :
            m \in {x \in DOMAIN src : \A t \in table : t.message_id # x}}

\* MERGE INTO bronze_documents_pii_handled ... UPDATE SET target.pii_detected
\* ... WHEN NOT MATCHED THEN INSERT (message_id, unmasked_text, pii_detected)
MergePiiDetected(table, src) ==
    {[r EXCEPT !.pii_detected = src[r.message_id].pii_detected] :
        r \in {t \in table : t.message_id \in DOMAIN src}}
    \cup {t \in table : t.message_id \notin DOMAIN src}
    \cup {[message_id |-> m, unmasked_text |-> src[m].unmasked_text,
           departments |-> NullDepts, pii_detected |-> src[m].pii_detected] :
            m \in {x \in DOMAIN src : \A t \in table : t.message_id # x}}

\* EXPLODE of an array column: no row for a NULL or an empty array
Exploded(arr, null) == IF arr = null THEN {} ELSE 1 .. Len(arr)

\* view_bronze_documents_pii_handled_expanded: one row for each pii_type:value
\* pair (pos: its place in the array), joined to its prompts by message_id
ViewExpanded ==
    UNION {{[message_id |-> h.message_id, unmasked_text |-> h.unmasked_text,
             departments |-> h.departments, pos |-> k,
             pii_type |-> h.pii_detected[k].pii_type,
             value |-> h.pii_detected[k].value,
             prompt |-> "prompt_profiling"] :
                k \in Exploded(h.pii_detected, NullPii)} :
           h \in {x \in handled : \E s \in source : s.message_id = x.message_id}}

\* WHERE INSTR(unmasked_text, value) <= 0 OR value IN ("", "...")
QuarantineWhere(row) ==
    SqlOr(SqlInstrLe0(row.unmasked_text, row.value),
          SqlIsPlaceholder(row.value)) = "TRUE"

CleansedWhereAnyDepartments(row) ==
    SqlAnd(SqlInstrGt0(row.unmasked_text, row.value),
           SqlNot(SqlIsPlaceholder(row.value))) = "TRUE"

\* WHERE INSTR(unmasked_text, value) > 0 AND value NOT IN ("", "...")
\*   AND departments IS NOT NULL
CleansedWhere(row) ==
    SqlAnd(SqlAnd(SqlInstrGt0(row.unmasked_text, row.value),
                  SqlNot(SqlIsPlaceholder(row.value))),
           SqlBool(row.departments # NullDepts)) = "TRUE"

\* the three INSERT INTO bronze_documents_pii_handled_quarantined (the table
\* is kept here as the set of its distinct rows)
QuarantineRows ==
    {[message_id |-> r.message_id, unmasked_text |-> r.unmasked_text,
      departments |-> r.departments, pii_type |-> r.pii_type, value |-> r.value,
      prompt |-> r.prompt] : r \in {x \in ViewExpanded : QuarantineWhere(x)}}
    \cup {[message_id |-> b.message_id, unmasked_text |-> b.unmasked_text,
           departments |-> b.departments, pii_type |-> NullStr, value |-> NullStr,
           prompt |-> "prompt_profiling"] :
            b \in {x \in handled : /\ x.pii_detected = NullPii
                                   /\ \E s \in source : s.message_id = x.message_id}}
    \cup {[message_id |-> b.message_id, unmasked_text |-> b.unmasked_text,
           departments |-> NullDepts, pii_type |-> NullStr, value |-> NullStr,
           prompt |-> "prompt_categorisation"] :
            b \in {x \in handled : /\ x.departments = NullDepts
                                   /\ \E s \in source : s.message_id = x.message_id}}

\* expanded_filtered, and its groups (message_id, unmasked_text, departments)
ExpandedFiltered == {r \in ViewExpanded : CleansedWhere(r)}

\* the pairs of a group, here in the order of the array they came from
GroupPairs(m) ==
    LET rows == {r \in ExpandedFiltered : r.message_id = m}
        h == CHOOSE x \in handled : x.message_id = m
    IN SelectSeq([k \in 1 .. Len(h.pii_detected) |->
                    [pii_type |-> h.pii_detected[k].pii_type,
                     value |-> h.pii_detected[k].value, pos |-> k]],
                 LAMBDA e : \E r \in rows : r.pos = e.pos)

StripPos(list) ==
    [k \in 1 .. Len(list) |-> [pii_type |-> list[k].pii_type, value |-> list[k].value]]

\* CREATE OR REPLACE TABLE ..._cleansed AS ... COLLECT_LIST(STRUCT(pii_type,
\* value)) ... GROUP BY message_id, unmasked_text, departments: one row for
\* each message with a surviving pair; order[m] is the order in which
\* COLLECT_LIST met the rows of m's group, which Spark does not fix
CleansedRows(order) ==
    {[message_id |-> h.message_id, unmasked_text |-> h.unmasked_text,
      departments |-> h.departments, pii_detected |-> order[h.message_id]] :
        h \in {x \in handled : \E r \in ExpandedFiltered : r.message_id = x.message_id}}

CleansedOrders ==
    LET ms == {r.message_id : r \in ExpandedFiltered}
    IN {f \in [ms -> UNION {Orders(StripPos(GroupPairs(m))) : m \in ms}] :
            \A m \in ms : f[m] \in Orders(StripPos(GroupPairs(m)))}

\* view_bronze_pii_handled_all_exploded: the cleansed rows, one for each
\* department and pair
ViewAllExploded ==
    UNION {{[message_id |-> c.message_id, department |-> c.departments[d],
             pii_type |-> c.pii_detected[k].pii_type,
             pii_value |-> c.pii_detected[k].value] :
                <<d, k>> \in (1 .. Len(c.departments)) \X (1 .. Len(c.pii_detected))} :
           c \in cleansed}

DepartmentPiiValues ==
    [d \in {r.department : r \in ViewAllExploded} |->
        {r.pii_value : r \in {x \in ViewAllExploded : x.department = d}}]

\* view_bronze_department_pii_types_agg: COLLECT_SET(pii_type) by department
DepartmentPiiTypes ==
    [d \in {r.department : r \in ViewAllExploded} |->
        {r.pii_type : r \in {x \in ViewAllExploded : x.department = d}}]

\* create_filter_pii_prompt: "" for a department without exclusions, else
\* the template filled with the types found and the department's exclusions
EmptyPrompt == [pii_identified_list |-> {}, department_exclusions |-> <<>>]

CreateFilterPiiPrompt(department, pii_types_identified) ==
    IF DepartmentExclusions(department) = <<>>
    THEN EmptyPrompt
    ELSE [pii_identified_list |-> pii_types_identified,
          department_exclusions |-> DepartmentExclusions(department)]

\* df_prompts.where(df_prompts["prompts"] != ""): the departments queried
PromptedDepartments ==
    {d \in DOMAIN DepartmentPiiTypes :
        CreateFilterPiiPrompt(d, DepartmentPiiTypes[d]) # EmptyPrompt}

\* view_bronze_redact_ready: the cleansed rows by department, LEFT OUTER JOIN
\* the department's merged_list, COALESCE(..., ARRAY())
ViewRedactReady ==
    UNION {{[message_id |-> c.message_id, unmasked_text |-> c.unmasked_text,
             department |-> c.departments[d], pii_detected |-> c.pii_detected,
             redaction_exclusion_filters |->
                IF c.departments[d] \in DOMAIN deptFilters
                THEN deptFilters[c.departments[d]] ELSE {}] :
                d \in 1 .. Len(c.departments)} :
           c \in cleansed}

RedactStepInverted(text, item, exclusions) ==
    IF item.pii_type \in exclusions
    THEN Replace(text, item.value, Tag(item.pii_type))
    ELSE text

\* the body of the loop `for item_pii in pii_list`
RedactStep(text, item, exclusions) ==
    IF item.pii_type \notin exclusions
    THEN Replace(text, item.value, Tag(item.pii_type))
    ELSE text

\* redact_text on one row: the items of pii_list, one after the other
RECURSIVE RedactText(_, _, _)
RedactText(unmasked_text, pii_list, exclusions) ==
    IF pii_list = <<>> THEN unmasked_text
    ELSE RedactText(RedactStep(unmasked_text, Head(pii_list), exclusions),
                    Tail(pii_list), exclusions)

\* df_unique_depts: explode(departments) of bronze_documents_pii_handled
UniqueDepartments ==
    UNION {{h.departments[d] : d \in Exploded(h.departments, NullDepts)} : h \in handled}

\* the rows of a department's silver table: SELECT message_id, redacted_text,
\* redaction_exclusion_filters AS pii_exclusions ... WHERE department = dept
SilverRows(dept) ==
    {[message_id |-> r.message_id, redacted_text |-> r.redacted_text,
      pii_exclusions |-> r.redaction_exclusion_filters] :
        r \in {x \in redacted : x.department = dept}}

\* MERGE INTO target USING source ON message_id: matched rows take the
\* source's columns, unmatched source rows are inserted
MergeRows(target, src) ==
    {t \in target : \A r \in src : r.message_id # t.message_id} \cup src

-----------------------------------------------------------------------------
(* The cells of the ETL, in the order of the notebook *)

\* the parsed answers of one run of pii_bot over the source table: a
\* departments array or NULL, a pii_detected array or NULL, for each message
EtlInit ==
    /\ etl = "categorise"
    /\ source \in {{[message_id |-> m, unmasked_text |-> f[m]] : m \in MessageIds} :
                    f \in [MessageIds -> Texts]}
    /\ handled = {}
    /\ quarantined = {}
    /\ cleansed = {}
    /\ deptFilters = [d \in {} |-> {}]
    /\ gatewayPrompts = {}
    /\ redacted = {}
    /\ silver = [d \in {} |-> {}]
    /\ gold = [d \in {} |-> {}]

\* "ETL: Categorise messages": the departments parsed from the model's
\* answers (NULL where FROM_JSON could not parse), merged into the table
Categorise ==
    /\ etl = "categorise"
    /\ \E answers \in [MessageIds -> {NullDepts} \cup DepartmentLists] :
          handled' = MergeDepartments(handled,
            [m \in {s.message_id : s \in source} |->
                [unmasked_text |-> (CHOOSE s \in source : s.message_id = m).unmasked_text,
                 departments |-> answers[m]]])
    /\ etl' = "profile"
    /\ UNCHANGED <<source, quarantined, cleansed, deptFilters, gatewayPrompts,
                   redacted, silver, gold, batchVars, call, regVars>>

\* "ETL: Profile PII for each message": the pii_detected parsed from the
\* model's answers, merged into the table
Profile ==
    /\ etl = "profile"
    /\ \E answers \in [MessageIds -> {NullPii} \cup PiiLists] :
          handled' = MergePiiDetected(handled,
            [m \in {s.message_id : s \in source} |->
                [unmasked_text |-> (CHOOSE s \in source : s.message_id = m).unmasked_text,
                 pii_detected |-> answers[m]]])
    /\ etl' = "quarantine"
    /\ UNCHANGED <<source, quarantined, cleansed, deptFilters, gatewayPrompts,
                   redacted, silver, gold, batchVars, call, regVars>>

\* "Quarantine inaccurate results": the three INSERT INTO
Quarantine ==
    /\ etl = "quarantine"
    /\ quarantined' = quarantined \cup QuarantineRows
    /\ etl' = "cleanse"
    /\ UNCHANGED <<source, handled, cleansed, deptFilters, gatewayPrompts,
                   redacted, silver, gold, batchVars, call, regVars>>

\* "Rebuild working table ...": CREATE OR REPLACE TABLE ..._cleansed
Cleanse ==
    /\ etl = "cleanse"
    /\ \E order \in CleansedOrders : cleansed' = CleansedRows(order)
    /\ etl' = "filter"
    /\ UNCHANGED <<source, handled, quarantined, deptFilters, gatewayPrompts,
                   redacted, silver, gold, batchVars, call, regVars>>

\* create_filter_pii_prompt, llama_70b and json_string_to_array: every
\* department with exclusions gets the list of the types the model names
FilterPiiTypes ==
    /\ etl = "filter"
    /\ gatewayPrompts' =
          {CreateFilterPiiPrompt(d, DepartmentPiiTypes[d]) : d \in PromptedDepartments}
    /\ \E answers \in [PromptedDepartments -> SUBSET PiiTypes] : deptFilters' = answers
    /\ etl' = "redact"
    /\ UNCHANGED <<source, handled, quarantined, cleansed, redacted, silver, gold,
                   batchVars, call, regVars>>

\* json.loads raises on an answer that is not JSON: the notebook stops
FilterPiiTypesRaises ==
    /\ etl = "filter"
    /\ PromptedDepartments # {}
    /\ gatewayPrompts' =
          {CreateFilterPiiPrompt(d, DepartmentPiiTypes[d]) : d \in PromptedDepartments}
    /\ etl' = "failed"
    /\ UNCHANGED <<source, handled, quarantined, cleansed, deptFilters, redacted,
                   silver, gold, batchVars, call, regVars>>

\* redact_text over view_bronze_redact_ready, saved as bronze_pii_redacted
Redact ==
    /\ etl = "redact"
    /\ redacted' =
          {[message_id |-> r.message_id, unmasked_text |-> r.unmasked_text,
            department |-> r.department, pii_detected |-> r.pii_detected,
            redaction_exclusion_filters |-> r.redaction_exclusion_filters,
            redacted_text |-> RedactText(r.unmasked_text, r.pii_detected,
                                         r.redaction_exclusion_filters)] :
              r \in ViewRedactReady}
    /\ etl' = "silver"
    /\ UNCHANGED <<source, handled, quarantined, cleansed, deptFilters,
                   gatewayPrompts, silver, gold, batchVars, call, regVars>>

\* "ETL: Create table for each department": DROP, CREATE, MERGE, for every
\* department of df_unique_depts
CreateSilver ==
    /\ etl = "silver"
    /\ silver' = [d \in UniqueDepartments |-> MergeRows({}, SilverRows(d))]
    /\ etl' = "gold"
    /\ UNCHANGED <<source, handled, quarantined, cleansed, deptFilters,
                   gatewayPrompts, redacted, gold, batchVars, call, regVars>>

\* "ETL: Publish to Gold Layer": CREATE TABLE IF NOT EXISTS, MERGE
PublishGold ==
    /\ etl = "gold"
    /\ gold' = [d \in UniqueDepartments |->
                  MergeRows(IF d \in DOMAIN gold THEN gold[d] ELSE {}, silver[d])]
    /\ etl' = "done"
    /\ UNCHANGED <<source, handled, quarantined, cleansed, deptFilters,
                   gatewayPrompts, redacted, silver, batchVars, call, regVars>>

EtlNext ==
    \/ Categorise
    \/ Profile
    \/ Quarantine
    \/ Cleanse
    \/ FilterPiiTypes
    \/ FilterPiiTypesRaises
    \/ Redact
    \/ CreateSilver
    \/ PublishGold

-----------------------------------------------------------------------------
(* set_model_version_production (03_Model_Registration_and_Deployment.py)  *)
(* and the stages of the model registry                                    *)

Stages == {"None", "Staging", "Production", "Archived"}

Versions == 1 .. Len(registry)

\* the orders in which search_model_versions can return the versions: the
\* text order_by=['version DESC'] is inside filter_string, so that no
\* order_by argument is passed and the order is the registry's own
SearchOrders ==
    {order \in [Versions -> Versions] : \A v \in Versions : \E k \in Versions : order[k] = v}

PromoIdle == [pc |-> "idle", model_versions |-> <<>>, latest_model_version |-> 0, k |-> 0]

RegInit ==
    /\ registry \in UNION {[1 .. n -> Stages] : n \in 1 .. MaxVersions}
    /\ promo = [PromoIdle EXCEPT !.pc = "search"]

\* client.search_model_versions(...) raises: NameError when the global
\* model_name is not yet bound (it is assigned further down the notebook), or
\* the registry refuses the filter string
SearchRaises ==
    /\ promo.pc = "search"
    /\ promo' = [promo EXCEPT !.pc = "raised"]
    /\ UNCHANGED <<registry, batchVars, call, etlVars>>

\* client.search_model_versions(...) returns the versions with their stages;
\* `if latest_model_version is None: latest_model_version =
\* model_versions[0].version` (the call of line 312 passes no version)
SearchReturns ==
    /\ promo.pc = "search"
    /\ \E order \in SearchOrders :
          promo' = [promo EXCEPT
                      !.pc = "promote",
                      !.model_versions =
                          [k \in Versions |->
                              [version |-> order[k], current_stage |-> registry[order[k]]]],
                      !.latest_model_version = order[1]]
    /\ UNCHANGED <<registry, batchVars, call, etlVars>>

\* transition_model_version_stage(version=latest_model_version,
\* stage="Production")
PromoteLatest ==
    /\ promo.pc = "promote"
    /\ registry' = [registry EXCEPT ![promo.latest_model_version] = "Production"]
    /\ promo' = [promo EXCEPT !.pc = "archive", !.k = 1]
    /\ UNCHANGED <<batchVars, call, etlVars>>

\* `mv.current_stage == "Production" and mv.version != latest_model_version`
Archives(mv, latest_model_version) ==
    mv.current_stage = "Production" /\ mv.version # latest_model_version

\* one iteration of `for mv in model_versions`
ArchiveStep ==
    /\ promo.pc = "archive"
    /\ promo.k <= Len(promo.model_versions)
    /\ LET mv == promo.model_versions[promo.k]
       IN registry' = IF Archives(mv, promo.latest_model_version)
                      THEN [registry EXCEPT ![mv.version] = "Archived"]
                      ELSE registry
    /\ promo' = [promo EXCEPT !.k = promo.k + 1]
    /\ UNCHANGED <<batchVars, call, etlVars>>

\* the loop is over: the function returns
PromoReturns ==
    /\ promo.pc = "archive"
    /\ promo.k > Len(promo.model_versions)
    /\ promo' = [promo EXCEPT !.pc = "done"]
    /\ UNCHANGED <<registry, batchVars, call, etlVars>>

RegNext ==
    \/ SearchRaises
    \/ SearchReturns
    \/ PromoteLatest
    \/ ArchiveStep
    \/ PromoReturns

\* the registry is not in use
RegIdle ==
    /\ registry = <<>>
    /\ promo = PromoIdle

-----------------------------------------------------------------------------
(* Specifications: each runs one part of the repository, the variables of  *)
(* the other parts staying at rest.                                        *)

BatchIdle ==
    /\ partRows = <<0>>
    /\ pc = "idle"
    /\ i = 0
    /\ results = <<>>
    /\ nSleeps = 0
    /\ tasks = [t \in {} |-> 0]

\* the ETL has not started
EtlIdle ==
    /\ etl = "idle"
    /\ source = {}
    /\ handled = {}
    /\ quarantined = {}
    /\ cleansed = {}
    /\ deptFilters = [d \in {} |-> {}]
    /\ gatewayPrompts = {}
    /\ redacted = {}
    /\ silver = [d \in {} |-> {}]
    /\ gold = [d \in {} |-> {}]

InitBatch == BatchInit /\ call = CallIdle /\ EtlIdle /\ RegIdle

SpecBatch == InitBatch /\ [][BatchNext]_vars

InitEtl == BatchIdle /\ call = CallIdle /\ EtlInit /\ RegIdle

SpecEtl == InitEtl /\ [][EtlNext]_vars

InitCalls == BatchIdle /\ call = CallIdle /\ EtlIdle /\ RegIdle

SpecCalls == InitCalls /\ [][CallsNext]_vars

\* batch_process_prompts alone, on inputs of few and of many rows, up to the
\* submission of the job: the driver runs its statements one after the
\* other, so a step that can be taken is taken
SplitRowCounts == {0, 1, N_PROMPTS_PER_BATCH + 1, ManyRows}

InitSplit ==
    /\ partRows \in UNION {[1 .. n -> SplitRowCounts] : n \in 1 .. MaxPartitions}
    /\ pc = "loop"
    /\ i = 0
    /\ results = <<>>
    /\ nSleeps = 0
    /\ tasks = [t \in {} |-> 0]
    /\ call = CallIdle
    /\ EtlIdle
    /\ RegIdle

SplitNext ==
    \/ LoopIteration
    \/ LoopSleep
    \/ UnionReturn
    \/ DisplayAction

SpecSplit == InitSplit /\ [][SplitNext]_vars /\ WF_vars(SplitNext)

InitReg == BatchIdle /\ call = CallIdle /\ EtlIdle /\ RegInit

SpecReg == InitReg /\ [][RegNext]_vars

-----------------------------------------------------------------------------
(* Claims on batch_process_prompts and pii_bot (SpecBatch) *)

InFlight == {t \in DOMAIN tasks : tasks[t].state = "posted"}
Issued == {t \in DOMAIN tasks : tasks[t].state \in {"posted", "returned", "raised"}}
Completed == {t \in DOMAIN tasks : tasks[t].state \in {"returned", "raised"}}

\* C1: the batches are sent to the endpoint one after the other: requests of
\* two different batches are never in flight together, and a request of a
\* batch is issued only once every request of each earlier batch has completed.
C1_BatchesSentSequentially ==
    /\ \A t1, t2 \in InFlight : t1[1] = t2[1]
    /\ \A t1, t2 \in DOMAIN tasks :
          (t1[1] < t2[1] /\ t2 \in Issued) => t1 \in Completed

\* C2: an invocation of pii_bot whose response is not a 200 raises and returns
\* no output for any of its prompts; outputs are returned only after a 200,
\* and then one per prompt.
C2_PiiBotRaisesUnless200 ==
    \A t \in DOMAIN tasks :
        /\ (t \in Completed /\ tasks[t].status # HTTP_OK)
              => (tasks[t].state = "raised" /\ tasks[t].outputs = 0)
        /\ tasks[t].outputs > 0 => tasks[t].status = HTTP_OK
        /\ tasks[t].state = "returned"
              => (tasks[t].status = HTTP_OK /\ tasks[t].outputs = tasks[t].prompts)

\* one invocation has returned its outputs and another has raised on a 504
C2_Witness ==
    /\ \E t \in DOMAIN tasks :
          tasks[t].state = "raised" /\ tasks[t].status = HTTP_GATEWAY_TIMEOUT
    /\ \E t \in DOMAIN tasks : tasks[t].state = "returned" /\ tasks[t].outputs > 0

-----------------------------------------------------------------------------
(* Claims on retries and on what a failed call becomes (SpecCalls) *)

Max(a, b) == IF a >= b THEN a ELSE b

NumErrors(responses) ==
    Cardinality({k \in 1 .. Len(responses) : responses[k] = "Error"})

\* C3 (as stated): no executed code path retries: a call that has failed is
\* never issued again in the same run.
C3_NoCallReissuedAfterFailure == ~call.reissued

\* C3 (amended): pii_bot sends one request per invocation and none after a
\* failure, and no function but retriable_execution issues a failed call
\* again; retriable_execution executes its statement at most max_retries
\* times (once when max_retries is 0) and has raised once max_retries
\* executions have failed.
C3_RetriesOnlyInRetriableExecution ==
    /\ call.fn # "retriable_execution" => ~call.reissued
    /\ call.fn = "pii_bot" => (call.issued <= 1 /\ (call.failed > 0 => call.outcome = "raised"))
    /\ call.fn = "retriable_execution" =>
          /\ call.issued <= Max(1, call.arg)
          /\ call.issued \in {call.num_try, call.num_try + 1}
          /\ (call.arg >= 1 /\ call.num_try = call.arg) => call.outcome = "raised"

\* retriable_execution has executed a statement that had failed before, then
\* given up after max_retries = 3 failed executions
C3_Witness ==
    /\ call.fn = "retriable_execution"
    /\ call.arg = DEFAULT_MAX_RETRIES
    /\ call.issued = DEFAULT_MAX_RETRIES
    /\ call.reissued
    /\ call.outcome = "raised"

\* C4 (as stated): every failure of an external call surfaces as a raised
\* exception: no function returns normally once a call of its own has failed.
C4_FailuresSurfaceAsExceptions ==
    (call.outcome # "none" /\ call.failed > 0) => call.outcome = "raised"

\* C4 (amended): a failed call surfaces as an exception in pii_bot, in
\* send_request for a status other than 200 and 404, and in
\* retriable_execution unless a later execution succeeded; send_request
\* returns the body of a 404, redact_pii_udf returns "Error: ..." in place of
\* each failed text, and HotelRetrievalTool._run returns [].
C4_FailuresSurfaceExceptWhereCaught ==
    (call.outcome # "none" /\ call.failed > 0) =>
        CASE call.fn = "pii_bot" -> call.outcome = "raised"
          [] call.fn = "send_request" ->
                IF call.status = HTTP_NOT_FOUND
                THEN call.outcome = "returned" /\ call.value = "json"
                ELSE call.outcome = "raised"
          [] call.fn = "redact_pii_udf" ->
                /\ call.outcome = "returned"
                /\ Len(call.responses) = call.arg
                /\ NumErrors(call.responses) = call.failed
          [] call.fn = "_run" -> call.outcome = "returned" /\ call.value = "[]"
          [] call.fn = "retriable_execution" ->
                call.outcome = "returned" <=>
                    (call.value = "answer" /\ call.issued = call.num_try + 1)
          [] OTHER -> FALSE

\* send_request has returned the body of a 404 response
C4_Witness ==
    /\ call.fn = "send_request"
    /\ call.status = HTTP_NOT_FOUND
    /\ call.outcome = "returned"

-----------------------------------------------------------------------------
(* Claims on the ETL (SpecEtl) *)

\* the cells that have run when etl has one of these values
QuarantineRan == etl \in {"cleanse", "filter", "redact", "failed", "silver", "gold", "done"}
CleanseRan == etl \in {"filter", "redact", "failed", "silver", "gold", "done"}

\* the message_ids of the silver and of the gold tables
SilverIds == UNION {{r.message_id : r \in silver[d]} : d \in DOMAIN silver}
GoldIds == UNION {{r.message_id : r \in gold[d]} : d \in DOMAIN gold}

\* the pair of an exploded row is in the quarantine table, in the
\* pii_detected of the cleansed table
InQuarantine(row) ==
    \E q \in quarantined :
        /\ q.message_id = row.message_id
        /\ q.pii_type = row.pii_type
        /\ q.value = row.value

InCleansed(row) ==
    \E c \in cleansed :
        /\ c.message_id = row.message_id
        /\ [pii_type |-> row.pii_type, value |-> row.value] \in Range(c.pii_detected)

\* C5 (as stated): no message with a row in the quarantine table appears, by
\* message_id, in a silver or a gold table.
C5_QuarantinedMessagesNotInSilverOrGold ==
    \A q \in quarantined : q.message_id \notin SilverIds \cup GoldIds

\* C6 (as stated): once the cleansed table is built, every detected pair whose
\* value does not occur in the unmasked_text (a NULL value occurs in no text),
\* or whose value is empty, is in the quarantine table and is absent from the
\* pii_detected of the cleansed table.
C6_BadPairsQuarantinedAndNotCleansed ==
    CleanseRan =>
        \A row \in ViewExpanded :
            (\/ row.value = NullStr
             \/ Instr(row.unmasked_text, row.value) = 0
             \/ row.value = EmptyStr)
            => (InQuarantine(row) /\ ~InCleansed(row))

\* C7: once the quarantine cell has run, every message whose pii_detected or
\* departments is NULL has a row in the quarantine table, and it never has a
\* row in the cleansed table.
C7_UnparsedMessagesQuarantinedNotCleansed ==
    \A h \in handled :
        (h.pii_detected = NullPii \/ h.departments = NullDepts) =>
            /\ QuarantineRan => \E q \in quarantined : q.message_id = h.message_id
            /\ \A c \in cleansed : c.message_id # h.message_id

\* the cleansed table has been built for a message whose departments is NULL
\* and one of whose detected values occurs in its text: the message is
\* quarantined, and the cleansed table has no row
C7_Witness ==
    /\ etl = "done"
    /\ cleansed = {}
    /\ \E h \in handled :
          /\ h.departments = NullDepts
          /\ h.pii_detected # NullPii
          /\ \E k \in 1 .. Len(h.pii_detected) :
                Instr(h.unmasked_text, h.pii_detected[k].value) > 0
          /\ \E q \in quarantined :
                q.message_id = h.message_id /\ q.prompt = "prompt_categorisation"

\* C8 (as stated): once the cleansed table is built, every pair exploded from
\* bronze_documents_pii_handled is in the quarantine table or in the
\* pii_detected of the cleansed table, and never in both.
C8_EveryPairQuarantinedOrCleansed ==
    CleanseRan => \A row \in ViewExpanded : InQuarantine(row) # InCleansed(row)

\* the rows of bronze_pii_redacted of the departments without, and with, an
\* entry in DEPARTMENT_REDACTION_EXEMPTIONS
AllOthersRows == {r \in redacted : r.department \notin DOMAIN DEPARTMENT_REDACTION_EXEMPTIONS}
ExemptRows == {r \in redacted : r.department \in DOMAIN DEPARTMENT_REDACTION_EXEMPTIONS}

\* the redacted_text stored for a row: in bronze_pii_redacted, and in the
\* silver and gold tables of its department
StoredTexts(r) ==
    {r.redacted_text}
    \cup (IF r.department \in DOMAIN silver
          THEN {x.redacted_text : x \in {y \in silver[r.department] :
                                            y.message_id = r.message_id}}
          ELSE {})
    \cup (IF r.department \in DOMAIN gold
          THEN {x.redacted_text : x \in {y \in gold[r.department] :
                                            y.message_id = r.message_id}}
          ELSE {})

\* no detected value of the row holds a bracket or lies within the name of a
\* detected pii_type
NoValueInATag(r) ==
    \A e \in Range(r.pii_detected) :
        /\ CharsOf(e.value) \cap {"[", "]"} = {}
        /\ \A f \in Range(r.pii_detected) : Instr(f.pii_type, e.value) = 0

\* C9 (as stated): for every message of a department without an entry in
\* DEPARTMENT_REDACTION_EXEMPTIONS, the stored redacted_text contains none of
\* the values of the message's pii_detected.
C9_AllOthersTextHoldsNoDetectedValue ==
    \A r \in AllOthersRows :
        \A e \in Range(r.pii_detected) :
            \A text \in StoredTexts(r) : Instr(text, e.value) = 0

\* C9 (amended): for every message of a department without an entry in
\* DEPARTMENT_REDACTION_EXEMPTIONS, the exclusion list is empty, and the
\* stored redacted_text contains none of the values of the message's
\* pii_detected, provided that no detected value holds "[" or "]" or lies
\* within the name of one of the message's detected pii_types.
C9_AllOthersTextHoldsNoValueButInTags ==
    \A r \in AllOthersRows :
        /\ r.redaction_exclusion_filters = {}
        /\ NoValueInATag(r) =>
              \A e \in Range(r.pii_detected) :
                  \A text \in StoredTexts(r) : Instr(text, e.value) = 0

\* a LEGAL message "aP" or "Pa" with the two NAME values "a" and "P" is in the
\* gold table with both values replaced by [NAME]
C9_Witness ==
    /\ etl = "done"
    /\ \E r \in AllOthersRows :
          /\ r.department = "LEGAL"
          /\ Len(r.unmasked_text) = 2
          /\ {e.value : e \in Range(r.pii_detected)} = {<<"a">>, <<"P">>}
          /\ {e.pii_type : e \in Range(r.pii_detected)} = {NAME}
          /\ r.redacted_text = Tag(NAME) \o Tag(NAME)
          /\ \E g \in gold["LEGAL"] : g.redacted_text = r.redacted_text

\* the detected values of the row share no character with each other, nor
\* with the tag of a detected pii_type that is not excluded
ValuesApart(r) ==
    /\ \A j, k \in 1 .. Len(r.pii_detected) :
          j # k => CharsOf(r.pii_detected[j].value)
                       \cap CharsOf(r.pii_detected[k].value) = {}
    /\ \A e, f \in Range(r.pii_detected) :
          f.pii_type \notin r.redaction_exclusion_filters =>
              CharsOf(e.value) \cap CharsOf(Tag(f.pii_type)) = {}

\* number of positions of text at which value occurs
CountOcc(text, value) == Cardinality({k \in 1 .. Len(text) : IsAt(text, value, k)})

\* the outcome of redact_text for one detected pair of a row: a value whose
\* pii_type is not excluded is gone and its tag is there, a value whose
\* pii_type is excluded occurs where it did
RedactedAsRuled(r, e) ==
    IF e.pii_type \notin r.redaction_exclusion_filters
    THEN /\ Instr(r.redacted_text, e.value) = 0
         /\ Instr(r.redacted_text, Tag(e.pii_type)) > 0
    ELSE CountOcc(r.redacted_text, e.value) = CountOcc(r.unmasked_text, e.value)

SensitiveValues ==
    {x.unmasked_text : x \in source}
    \cup UNION {{h.pii_detected[k].value : k \in Exploded(h.pii_detected, NullPii)} :
                    h \in handled}

\* the pii_type names detected in the messages of a department
TypesDetectedFor(department) ==
    UNION {{h.pii_detected[k].pii_type : k \in Exploded(h.pii_detected, NullPii)} :
            h \in {x \in handled : x.departments # NullDepts
                                    /\ department \in Range(x.departments)}}

-----------------------------------------------------------------------------
(* Claims on the batches of batch_process_prompts (SpecSplit) *)

\* C12 (as stated): every batch handed to pii_bot holds at most
\* N_PROMPTS_PER_BATCH prompts, whatever the number of input rows.
C12_BatchesHoldAtMost40Prompts ==
    \A t \in DOMAIN tasks : tasks[t].prompts <= N_PROMPTS_PER_BATCH

\* the driver's counters at each position of batch_process_prompts: before
\* iteration i, i batches are appended and i sleeps are done; a sleep follows
\* every iteration but the last; at the return all N_PROMPTS_PER_BATCH batches
\* 0 .. N_PROMPTS_PER_BATCH - 1 are appended after N_PROMPTS_PER_BATCH - 1 sleeps
LoopCounts ==
    /\ pc = "loop" => (i < N_PROMPTS_PER_BATCH /\ Len(results) = i /\ nSleeps = i)
    /\ pc = "sleep" => /\ i < N_PROMPTS_PER_BATCH - 1
                       /\ Len(results) = i + 1
                       /\ nSleeps = i
    /\ pc \in {"union", "returned", "job"} =>
            /\ results = [k \in 1 .. N_PROMPTS_PER_BATCH |-> k - 1]
            /\ nSleeps = N_PROMPTS_PER_BATCH - 1

\* C13: for every input batch_process_prompts performs exactly
\* N_PROMPTS_PER_BATCH iterations, sleeps after every iteration but the last
\* (N_PROMPTS_PER_BATCH - 1 sleeps), and then returns the union of the batches.
C13_FixedLoopThenReturns == [](LoopCounts) /\ <>(pc = "returned")

\* batch_process_prompts has returned the union of 40 batches after 39 sleeps,
\* for an input of more than 40 rows
C13_Witness ==
    /\ pc = "returned"
    /\ Len(results) = N_PROMPTS_PER_BATCH
    /\ nSleeps = N_PROMPTS_PER_BATCH - 1
    /\ partRows = <<N_PROMPTS_PER_BATCH + 1>>

-----------------------------------------------------------------------------
(* Claims on set_model_version_production (SpecReg) *)

InProduction == {v \in Versions : registry[v] = "Production"}

\* the versions the registry held in stage Production when the call began
WasInProduction ==
    {promo.model_versions[k].version :
        k \in {j \in 1 .. Len(promo.model_versions) :
                    promo.model_versions[j].current_stage = "Production"}}

\* C14 (as stated): once set_model_version_production has completed, the
\* latest version is in stage Production, every other version that was in
\* Production before the call is in stage Archived, and exactly one version
\* is in Production.
C14_LatestAloneInProduction ==
    promo.pc = "done" =>
        /\ registry[Len(registry)] = "Production"
        /\ \A v \in WasInProduction \ {Len(registry)} : registry[v] = "Archived"
        /\ Cardinality(InProduction) = 1

====
